---- MODULE Spec2Model ----
(***************************************************************************)
(* Inventory service (express + multer): the in-memory item list, the      *)
(* inventory.json mirror, the photo files of the cache directory and the   *)
(* request handlers that read and change them.                             *)
(*                                                                         *)
(* Strings are sequences of one-character strings, so that trim() and      *)
(* parseInt() are computed and not assumed.  A stored photo file name      *)
(* `photo_${Date.now()}_${originalname}` is the pair <<clock, original>>:  *)
(* the clock part is digits only, so the text and the pair determine each  *)
(* other.  null is the empty tuple NoPhoto, undefined is Undefined.        *)
(***************************************************************************)
EXTENDS Integers, Sequences, FiniteSets, TLC

VARIABLES
    inventory,   \* let inventory: the in-memory item list
    nextId,      \* let nextId: the counter the next item's id is taken from
    file,        \* INVENTORY_FILE: whether it exists and the item array in it
    photos,      \* the photo files present in the cache directory
    now,         \* Date.now()
    resp,        \* the response of the last request
    assigned,    \* history: the ids the registers that answered 201 gave out
    deletedOk,   \* history: the ids whose DELETE answered 200
    failures     \* how many writes of INVENTORY_FILE failed so far

vars == <<inventory, nextId, file, photos, now, resp, assigned, deletedOk,
          failures>>

\* ---------------------------------------------------------------- bounds
MaxId == 2
MaxClock == 1
MaxFailures == 1

\* ---------------------------------------------------------------- values
Undefined == <<"undefined">>
NoPhoto == <<>>
NoFile == <<>>

\* originalname of the uploaded files
OrigNames == {<<"p">>}

\* req.file of a multipart request: a file or none
Files == OrigNames \cup {NoFile}

\* inventory_name and description of a POST /register body
RegisterNames == {Undefined, <<>>, <<" ">>, <<" ", "a">>}
RegisterDescriptions == {Undefined}

\* inventory_name and description of a PUT /inventory/:id body
PutNames == {Undefined, <<>>}
PutDescriptions == {Undefined}

\* the bodies of the requests of SpecUpdate, where the texts vary
UpdateRegisterNames == {<<"a", " ">>}
UpdateRegisterDescriptions == {Undefined, <<"d">>}
UpdateNames == {Undefined, <<>>, <<"b">>}
UpdateDescriptions == {Undefined, <<>>}

DigitChars == <<"0", "1", "2", "3", "4", "5", "6", "7", "8", "9">>

\* the :id path parameter: every id an item can have, one more, and a text that
\* is not a number
IdTexts ==
    {<<DigitChars[n + 1]>> : n \in 1..(MaxId + 1)}
        \cup {<<"x">>}

\* the id and has_photo fields of a POST /search body
SearchIds == IdTexts \cup {Undefined, <<>>, <<"1", "x">>}
HasPhotoFlags == {Undefined, <<"o", "n">>}

\* ------------------------------------------------------- pure functions
IsSpace(c) == c = " "

RECURSIVE TrimStart(_)
TrimStart(s) ==
    IF s = <<>> THEN <<>>
    ELSE IF IsSpace(Head(s)) THEN TrimStart(Tail(s)) ELSE s

RECURSIVE TrimEnd(_)
TrimEnd(s) ==
    IF s = <<>> THEN <<>>
    ELSE IF IsSpace(s[Len(s)]) THEN TrimEnd(SubSeq(s, 1, Len(s) - 1)) ELSE s

\* variant of Trim: nothing is stripped
TrimNothing(s) == s

\* String.prototype.trim
Trim(s) == TrimEnd(TrimStart(s))

\* JavaScript truthiness of a string or undefined
Truthy(s) == s # Undefined /\ s # <<>>

IsDigit(c) == \E n \in 1..10 : DigitChars[n] = c

DigitVal(c) == (CHOOSE n \in 1..10 : DigitChars[n] = c) - 1

RECURSIVE DigitPrefix(_, _, _)
\* the value of the longest run of digits s starts with; seen tells whether a
\* digit was read
DigitPrefix(s, acc, seen) ==
    IF s = <<>> \/ ~IsDigit(Head(s)) THEN [nan |-> ~seen, val |-> acc]
    ELSE DigitPrefix(Tail(s), acc * 10 + DigitVal(Head(s)), TRUE)

\* parseInt(text, 10): leading white space is skipped, a sign is read, then
\* the digits up to the first other character; NaN when there is no digit
ParseInt(text) ==
    LET s == TrimStart(text)
    IN  IF s # <<>> /\ Head(s) = "-"
        THEN LET r == DigitPrefix(Tail(s), 0, FALSE)
             IN  [nan |-> r.nan, val |-> 0 - r.val]
        ELSE IF s # <<>> /\ Head(s) = "+" THEN DigitPrefix(Tail(s), 0, FALSE)
        ELSE DigitPrefix(s, 0, FALSE)

RECURSIVE MaxOfIds(_, _)
\* inventory.reduce((max, item) => Math.max(max, item.id), 0)
MaxOfIds(items, max) ==
    IF items = <<>> THEN max
    ELSE MaxOfIds(Tail(items), IF Head(items).id > max THEN Head(items).id ELSE max)

\* variant of InitialNextId: the greatest id itself
InitialNextIdNoIncrement(items) == IF Len(items) > 0 THEN MaxOfIds(items, 0) ELSE 1

\* the value nextId is initialised with
InitialNextId(items) == IF Len(items) > 0 THEN MaxOfIds(items, 0) + 1 ELSE 1

\* loadInventory: [] when the file does not exist, else the parsed array.
\* JSON.stringify and JSON.parse give back the same items: every field is an
\* integer, a string or null.
loadInventory(f) == IF ~f.exists THEN <<>> ELSE f.data

\* saveInventory: the whole array replaces the content of the file
saveInventory(data) == [exists |-> TRUE, data |-> data]

\* variant of findIndex: the last index when no item has the id
findIndexOrLast(items, id) ==
    IF \E i \in 1..Len(items) : ~id.nan /\ items[i].id = id.val
    THEN CHOOSE i \in 1..Len(items) :
            /\ ~id.nan /\ items[i].id = id.val
            /\ \A j \in 1..(i - 1) : items[j].id # id.val
    ELSE Len(items)

\* inventory.findIndex((item) => item.id === id); 0 stands for -1
findIndex(items, id) ==
    IF \E i \in 1..Len(items) : ~id.nan /\ items[i].id = id.val
    THEN CHOOSE i \in 1..Len(items) :
            /\ ~id.nan /\ items[i].id = id.val
            /\ \A j \in 1..(i - 1) : items[j].id # id.val
    ELSE 0

\* Array.prototype.splice(index, 1)
splice(items, index) ==
    SubSeq(items, 1, index - 1) \o SubSeq(items, index + 1, Len(items))

\* multer's filename callback
uniqueName(clock, originalname) == <<clock, originalname>>

\* upload.single('photo'): the file, when there is one, is written into the
\* cache directory under uniqueName before the handler runs
upload(files, clock, originalname) ==
    IF originalname = NoFile THEN files
    ELSE files \cup {uniqueName(clock, originalname)}

\* variant of reqFilename: the name without the time of the upload
reqFilenameNoClock(clock, originalname) ==
    IF originalname = NoFile THEN NoPhoto ELSE uniqueName(0, originalname)

\* req.file ? req.file.filename : null
reqFilename(clock, originalname) ==
    IF originalname = NoFile THEN NoPhoto ELSE uniqueName(clock, originalname)

photoUrl(item) == IF item.photoFilename # NoPhoto THEN <<"url", item.id>> ELSE <<>>

itemToDTO(item) ==
    [id |-> item.id,
     inventory_name |-> item.inventory_name,
     description |-> item.description,
     photo_url |-> photoUrl(item)]

RECURSIVE mapDTO(_)
mapDTO(items) ==
    IF items = <<>> THEN <<>> ELSE <<itemToDTO(Head(items))>> \o mapDTO(Tail(items))

Response(op, status, ctype, body) ==
    [op |-> op, status |-> status, ctype |-> ctype, body |-> body]

\* res.status(status).json({ error: message }); a write that throws ends the
\* request in express's error handler, status 500
ErrorResponse(op, status, message) == Response(op, status, "json", <<message>>)

InternalError(op) == Response(op, 500, "html", <<"Internal Server Error">>)

\* whether this write of INVENTORY_FILE may fail
MayWrite(ok) == ok \/ failures < MaxFailures

Written(ok) == IF ok THEN failures ELSE failures + 1

\* ---------------------------------------------------------------- Init
Init ==
    /\ file = [exists |-> FALSE, data |-> <<>>]
    /\ inventory = loadInventory(file)
    /\ nextId = InitialNextId(inventory)
    /\ photos = {}
    /\ now = 0
    /\ resp = Response("none", 0, "none", <<>>)
    /\ assigned = {}
    /\ deletedOk = {}
    /\ failures = 0

\* -------------------------------------------------------------- actions

\* POST /register
Register(inventory_name, description, originalname, ok) ==
    /\ photos' = upload(photos, now, originalname)
    /\ IF ~Truthy(inventory_name) \/ Trim(inventory_name) = <<>>
       THEN /\ ok
            /\ resp' = ErrorResponse("register", 400, "inventory_name is required")
            /\ UNCHANGED <<inventory, nextId, file, assigned, failures>>
       ELSE LET newItem ==
                    [id |-> nextId,
                     inventory_name |-> Trim(inventory_name),
                     description |-> IF Truthy(description) THEN description ELSE <<>>,
                     photoFilename |-> reqFilename(now, originalname)]
            IN  /\ nextId <= MaxId
                /\ MayWrite(ok)
                /\ nextId' = nextId + 1
                /\ inventory' = Append(inventory, newItem)
                /\ assigned' = IF ok THEN assigned \cup {newItem.id} ELSE assigned
                /\ failures' = Written(ok)
                /\ IF ok
                   THEN /\ file' = saveInventory(inventory')
                        /\ resp' = Response("register", 201, "json", itemToDTO(newItem))
                   ELSE /\ file' = file
                        /\ resp' = InternalError("register")
    /\ UNCHANGED <<now, deletedOk>>

\* GET /inventory
GetInventory ==
    /\ resp' = Response("list", 200, "json", mapDTO(inventory))
    /\ UNCHANGED <<inventory, nextId, file, photos, now, assigned, deletedOk,
                   failures>>

\* GET /inventory/:id
GetItem(idText) ==
    LET id == ParseInt(idText)
        index == findIndex(inventory, id)
    IN  /\ resp' = IF index = 0 THEN ErrorResponse("get", 404, "Item not found")
                   ELSE Response("get", 200, "json", itemToDTO(inventory[index]))
        /\ UNCHANGED <<inventory, nextId, file, photos, now, assigned, deletedOk,
                       failures>>

\* variant of applyUpdate: an empty string replaces nothing
applyUpdateIfTruthy(item, inventory_name, description) ==
    [item EXCEPT
        !.inventory_name = IF Truthy(inventory_name) THEN inventory_name ELSE @,
        !.description = IF Truthy(description) THEN description ELSE @]

\* the fields of the body that are not undefined replace the item's
applyUpdate(item, inventory_name, description) ==
    [item EXCEPT
        !.inventory_name = IF inventory_name # Undefined THEN inventory_name ELSE @,
        !.description = IF description # Undefined THEN description ELSE @]

\* PUT /inventory/:id
PutItem(idText, inventory_name, description, ok) ==
    LET id == ParseInt(idText)
        index == findIndex(inventory, id)
    IN  /\ IF index = 0
           THEN /\ ok
                /\ resp' = ErrorResponse("put", 404, "Item not found")
                /\ UNCHANGED <<inventory, file, failures>>
           ELSE LET item == inventory[index]
                    updated == applyUpdate(item, inventory_name, description)
                IN  /\ MayWrite(ok)
                    /\ inventory' = [inventory EXCEPT ![index] = updated]
                    /\ failures' = Written(ok)
                    /\ IF ok
                       THEN /\ file' = saveInventory(inventory')
                            /\ resp' = Response("put", 200, "json", itemToDTO(updated))
                       ELSE /\ file' = file
                            /\ resp' = InternalError("put")
        /\ UNCHANGED <<nextId, photos, now, assigned, deletedOk>>

\* DELETE /inventory/:id
DeleteItem(idText, ok) ==
    LET id == ParseInt(idText)
        index == findIndex(inventory, id)
    IN  /\ IF index = 0
           THEN /\ ok
                /\ resp' = ErrorResponse("delete", 404, "Item not found")
                /\ UNCHANGED <<inventory, file, photos, deletedOk, failures>>
           ELSE LET removed == inventory[index]
                IN  /\ MayWrite(ok)
                    /\ inventory' = splice(inventory, index)
                    /\ failures' = Written(ok)
                    /\ IF ok
                       THEN /\ file' = saveInventory(inventory')
                            /\ photos' = IF removed.photoFilename # NoPhoto
                                         THEN photos \ {removed.photoFilename}
                                         ELSE photos
                            /\ deletedOk' = deletedOk \cup {removed.id}
                            /\ resp' = Response("delete", 200, "json", <<"Item deleted">>)
                       ELSE /\ file' = file
                            /\ resp' = InternalError("delete")
                            /\ UNCHANGED <<photos, deletedOk>>
        /\ UNCHANGED <<nextId, now, assigned>>

\* variant of photoResponse: the file is not looked for
photoResponseNoExistsCheck(items, files, id) ==
    LET index == findIndex(items, id)
    IN  IF index = 0 \/ items[index].photoFilename = NoPhoto
        THEN ErrorResponse("getPhoto", 404, "Photo not found")
        ELSE Response("getPhoto", 200, "image/jpeg", items[index].photoFilename)

\* the answer of GET /inventory/:id/photo in a store with these items and files
photoResponse(items, files, id) ==
    LET index == findIndex(items, id)
    IN  IF index = 0 \/ items[index].photoFilename = NoPhoto
        THEN ErrorResponse("getPhoto", 404, "Photo not found")
        ELSE IF items[index].photoFilename \notin files
        THEN ErrorResponse("getPhoto", 404, "Photo file not found")
        ELSE Response("getPhoto", 200, "image/jpeg", items[index].photoFilename)

\* GET /inventory/:id/photo
GetPhoto(idText) ==
    /\ resp' = photoResponse(inventory, photos, ParseInt(idText))
    /\ UNCHANGED <<inventory, nextId, file, photos, now, assigned, deletedOk,
                   failures>>

\* PUT /inventory/:id/photo
PutPhoto(idText, originalname, ok) ==
    LET id == ParseInt(idText)
        index == findIndex(inventory, id)
    IN  /\ photos' = upload(photos, now, originalname)
        /\ IF index = 0
           THEN /\ ok
                /\ resp' = ErrorResponse("putPhoto", 404, "Item not found")
                /\ UNCHANGED <<inventory, file, failures>>
           ELSE IF originalname = NoFile
           THEN /\ ok
                /\ resp' = ErrorResponse("putPhoto", 400, "photo is required")
                /\ UNCHANGED <<inventory, file, failures>>
           ELSE LET updated ==
                        [inventory[index] EXCEPT
                            !.photoFilename = reqFilename(now, originalname)]
                IN  /\ MayWrite(ok)
                    /\ inventory' = [inventory EXCEPT ![index] = updated]
                    /\ failures' = Written(ok)
                    /\ IF ok
                       THEN /\ file' = saveInventory(inventory')
                            /\ resp' = Response("putPhoto", 200, "json", itemToDTO(updated))
                       ELSE /\ file' = file
                            /\ resp' = InternalError("putPhoto")
        /\ UNCHANGED <<nextId, now, assigned, deletedOk>>

\* the body of a 200 answer of POST /search
searchResult(item, has_photo) ==
    [id |-> item.id,
     inventory_name |-> item.inventory_name,
     description |-> item.description,
     has_photo |-> item.photoFilename # NoPhoto,
     photo_url |-> IF has_photo = <<"o", "n">> THEN photoUrl(item) ELSE <<>>]

\* POST /search
Search(idText, has_photo) ==
    LET id == ParseInt(idText)
        index == findIndex(inventory, id)
    IN  /\ resp' = IF id.nan THEN ErrorResponse("search", 400, "Invalid id")
                   ELSE IF index = 0 THEN ErrorResponse("search", 404, "Item not found")
                   ELSE Response("search", 200, "json",
                                 searchResult(inventory[index], has_photo))
        /\ UNCHANGED <<inventory, nextId, file, photos, now, assigned, deletedOk,
                       failures>>

\* the clock advances
Tick ==
    /\ now < MaxClock
    /\ now' = now + 1
    /\ UNCHANGED <<inventory, nextId, file, photos, resp, assigned, deletedOk,
                   failures>>

\* the process is started again on the same cache directory
Restart ==
    /\ inventory' = loadInventory(file)
    /\ nextId' = InitialNextId(inventory')
    /\ resp' = Response("none", 0, "none", <<>>)
    /\ UNCHANGED <<file, photos, now, assigned, deletedOk, failures>>

Next ==
    \/ \E n \in RegisterNames, d \in RegisterDescriptions, o \in Files, ok \in BOOLEAN :
          Register(n, d, o, ok)
    \/ GetInventory
    \/ \E t \in IdTexts : GetItem(t)
    \/ \E t \in IdTexts, n \in PutNames, d \in PutDescriptions, ok \in BOOLEAN :
          PutItem(t, n, d, ok)
    \/ \E t \in IdTexts, ok \in BOOLEAN : DeleteItem(t, ok)
    \/ \E t \in IdTexts : GetPhoto(t)
    \/ \E t \in IdTexts, o \in Files, ok \in BOOLEAN : PutPhoto(t, o, ok)
    \/ Tick
    \/ Restart

Spec == Init /\ [][Next]_vars

\* the requests whose bodies are texts, with a choice of texts: items are
\* created, updated, deleted and searched
NextUpdate ==
    \/ \E n \in UpdateRegisterNames, d \in UpdateRegisterDescriptions, o \in Files,
          ok \in BOOLEAN : Register(n, d, o, ok)
    \/ \E t \in IdTexts, n \in UpdateNames, d \in UpdateDescriptions, ok \in BOOLEAN :
          PutItem(t, n, d, ok)
    \/ \E t \in IdTexts, ok \in BOOLEAN : DeleteItem(t, ok)
    \/ \E t \in SearchIds, h \in HasPhotoFlags : Search(t, h)

SpecUpdate == Init /\ [][NextUpdate]_vars
\* ---------------------------------------------------------------- claims

\* an inventory_name that is missing, empty or white space only
IsBlank(inventory_name) ==
    \/ inventory_name = Undefined
    \/ \A i \in 1..Len(inventory_name) : inventory_name[i] = " "

ValidName(inventory_name) == ~IsBlank(inventory_name)

\* C1, as stated: a register with a non-empty name whose write succeeds answers
\* 201 with id 1 when the store is empty and else with the greatest id among
\* the items in the store plus 1.
C1_IdIsMaxPlusOne ==
    [][resp'.op = "register" => \A n \in RegisterNames, d \in RegisterDescriptions, o \in Files :
          (Register(n, d, o, TRUE) /\ ValidName(n))
              => /\ resp'.status = 201
                 /\ resp'.body.id = InitialNextId(inventory)]_vars

\* C1, amended: a register with a non-empty name whose write succeeds answers
\* 201 with the id the counter nextId holds, which is greater than the id of
\* every item in the store (so at least the greatest id plus 1, and 1 at least),
\* and the counter moves on by one; the new item is the last of the list.
C1_IdIsNextId ==
    [][resp'.op = "register" => \A n \in RegisterNames, d \in RegisterDescriptions, o \in Files :
          (Register(n, d, o, TRUE) /\ ValidName(n))
              => /\ resp'.status = 201
                 /\ resp'.body.id = nextId
                 /\ resp'.body.id >= InitialNextId(inventory)
                 /\ \A i \in 1..Len(inventory) : inventory[i].id < resp'.body.id
                 /\ nextId' = nextId + 1
                 /\ Len(inventory') = Len(inventory) + 1
                 /\ inventory'[Len(inventory')].id = resp'.body.id]_vars

\* C1 witness: a register answered 201 with id 2 and the new item is the only
\* one of the store, the item with id 1 having been deleted.
C1_Witness ==
    /\ resp.op = "register" /\ resp.status = 201
    /\ resp.body.id = 2
    /\ Len(inventory) = 1
    /\ 1 \in deletedOk
\* C2, as stated: no register that answers 201 returns an id that an earlier
\* register returned, whatever was deleted and whether or not the process was
\* restarted in between.
C2_IdNeverReused ==
    [][resp'.op = "register" => \A n \in RegisterNames, d \in RegisterDescriptions, o \in Files :
          (Register(n, d, o, TRUE) /\ ValidName(n))
              => resp'.body.id \notin assigned]_vars

\* C3, as stated: between requests the item array of the JSON file is the
\* in-memory item list, also after a request whose write failed.
C3_FileEqualsMemory == loadInventory(file) = inventory

\* C4: a register whose inventory_name is missing, empty or white space only
\* answers 400 and leaves the item list, the JSON file and the next id as they
\* were, with or without a photo.
C4_BlankNameRejected ==
    [][resp'.op = "register" => \A n \in RegisterNames, d \in RegisterDescriptions, o \in Files, ok \in BOOLEAN :
          (Register(n, d, o, ok) /\ IsBlank(n))
              => /\ resp'.op = "register" /\ resp'.status = 400
                 /\ inventory' = inventory
                 /\ file' = file
                 /\ nextId' = nextId]_vars

\* C4 witness: a register was answered 400 in a store that holds an item
\* without a photo, and a photo file is in the cache directory.
C4_Witness ==
    /\ resp.op = "register" /\ resp.status = 400
    /\ Len(inventory) = 1 /\ inventory[1].photoFilename = NoPhoto
    /\ file = saveInventory(inventory)
    /\ photos = {uniqueName(0, <<"p">>)}
    /\ nextId = 2
\* the text of the path parameter that names the id of an item
IdText(id) == <<DigitChars[id + 1]>>

\* the request names no item of the store
Unknown(idText) ==
    \/ ParseInt(idText).nan
    \/ \A i \in 1..Len(inventory) : inventory[i].id # ParseInt(idText).val

\* C5: a PUT /inventory/:id of an existing item sets the name and the
\* description to the values the body supplies, an empty string included, keeps
\* the value of a field the body omits, and changes neither the id, the photo
\* reference and the position of the item nor any other item.
C5_UpdateReplacesSuppliedFields ==
    [][resp'.op = "put" => \A i \in 1..Len(inventory), n \in UpdateNames, d \in UpdateDescriptions,
          ok \in BOOLEAN :
          PutItem(IdText(inventory[i].id), n, d, ok)
              => /\ Len(inventory') = Len(inventory)
                 /\ inventory'[i].inventory_name =
                        IF n = Undefined THEN inventory[i].inventory_name ELSE n
                 /\ inventory'[i].description =
                        IF d = Undefined THEN inventory[i].description ELSE d
                 /\ inventory'[i].id = inventory[i].id
                 /\ inventory'[i].photoFilename = inventory[i].photoFilename
                 /\ \A j \in 1..Len(inventory) : j # i => inventory'[j] = inventory[j]
                 /\ ok => resp'.status = 200]_vars

\* C5 witness: a PUT answered 200 and left the second of two items with the
\* name of the body, the description it was registered with and its photo.
C5_Witness ==
    /\ resp.op = "put" /\ resp.status = 200
    /\ Len(inventory) = 2
    /\ inventory[2].inventory_name = <<"b">>
    /\ inventory[2].description = <<"d">>
    /\ inventory[2].photoFilename # NoPhoto
    /\ inventory[1].inventory_name = <<>>

\* C6, as stated: once DELETE /inventory/:id answered 200, every later
\* GET /inventory/:id of that id answers 404.
C6_DeletedStaysGone ==
    [][resp'.op = "get" => \A t \in IdTexts :
          (GetItem(t) /\ ~ParseInt(t).nan /\ ParseInt(t).val \in deletedOk)
              => resp'.status = 404]_vars

\* C7: a GET, PUT or DELETE /inventory/:id and a PUT /inventory/:id/photo that
\* name an id no item of the store has answer 404 and leave the item list, the
\* next id and the JSON file as they were.
C7_UnknownIdChangesNothing ==
    [][\A t \in IdTexts :
          Unknown(t)
              => LET refused ==
                         /\ resp'.status = 404
                         /\ inventory' = inventory
                         /\ nextId' = nextId
                         /\ file' = file
                 IN  /\ (resp'.op = "get" /\ GetItem(t)) => refused
                     /\ resp'.op = "put" =>
                            \A n \in PutNames, d \in PutDescriptions, ok \in BOOLEAN :
                                PutItem(t, n, d, ok) => refused
                     /\ resp'.op = "delete" =>
                            \A ok \in BOOLEAN : DeleteItem(t, ok) => refused
                     /\ resp'.op = "putPhoto" =>
                            \A o \in Files, ok \in BOOLEAN :
                                PutPhoto(t, o, ok) => refused]_vars

\* C7 witness: a DELETE was answered 404 in a store of two items that the
\* JSON file holds.
C7_Witness ==
    /\ resp.op = "delete" /\ resp.status = 404
    /\ Len(inventory) = 2
    /\ file = saveInventory(inventory)

\* C8: GET /inventory/:id/photo answers 404 when no item has the id, when the
\* item has no photo reference and when the file it references is not in the
\* cache directory, and in every other case 200 with an image content type.
C8_PhotoFoundOrNot ==
    [][resp'.op = "getPhoto" => \A t \in IdTexts :
          GetPhoto(t)
              => LET absent ==
                         \/ Unknown(t)
                         \/ \E i \in 1..Len(inventory) :
                               /\ inventory[i].id = ParseInt(t).val
                               /\ \/ inventory[i].photoFilename = NoPhoto
                                  \/ inventory[i].photoFilename \notin photos
                 IN  /\ absent => resp'.status = 404
                     /\ ~absent => /\ resp'.status = 200
                                   /\ resp'.ctype = "image/jpeg"]_vars

\* C8 witness: the photo of the only item was asked for and the answer was 404
\* because the file the item references is not in the cache directory.
C8_Witness ==
    /\ resp.op = "getPhoto" /\ resp.status = 404
    /\ resp.body = <<"Photo file not found">>
    /\ Len(inventory) = 1
    /\ inventory[1].photoFilename # NoPhoto
    /\ inventory[1].photoFilename \notin photos

\* C9, as stated (its consequence for the items): no two items of the store
\* reference the same photo file.
C9_NoSharedPhotoFile ==
    \A i, j \in 1..Len(inventory) :
        (i # j /\ inventory[i].photoFilename # NoPhoto)
            => inventory[i].photoFilename # inventory[j].photoFilename

\* C10: PUT /inventory/:id/photo answers 404 for an unknown id and 400 without
\* a file; with a file it answers 200 when the write succeeds, sets the photo
\* reference of the item to the reference of the new file, keeps the id, the
\* name and the description of the item and every file of the cache directory.
\* A file leaves the cache directory only in a DELETE of an item that
\* references it.
C10_PhotoUpdate ==
    [][/\ resp'.op = "putPhoto" => \A t \in IdTexts, o \in Files, ok \in BOOLEAN :
             (PutPhoto(t, o, ok) /\ Unknown(t)) => resp'.status = 404
       /\ resp'.op = "putPhoto" => \A i \in 1..Len(inventory), o \in Files, ok \in BOOLEAN :
             PutPhoto(IdText(inventory[i].id), o, ok)
                 => IF o = NoFile
                    THEN resp'.status = 400 /\ inventory' = inventory
                    ELSE /\ ok => resp'.status = 200
                         /\ inventory'[i].photoFilename = uniqueName(now, o)
                         /\ inventory'[i].photoFilename \in photos'
                         /\ inventory'[i].id = inventory[i].id
                         /\ inventory'[i].inventory_name = inventory[i].inventory_name
                         /\ inventory'[i].description = inventory[i].description
                         /\ photos \subseteq photos'
       /\ \A f \in photos \ photos' :
             \E i \in 1..Len(inventory) :
                /\ inventory[i].photoFilename = f
                /\ inventory' = splice(inventory, i)]_vars

\* C10 witness: a photo update answered 200, the item references the file
\* uploaded at clock 1 and the file it referenced before is still there.
C10_Witness ==
    /\ resp.op = "putPhoto" /\ resp.status = 200
    /\ Len(inventory) = 1
    /\ inventory[1].photoFilename = uniqueName(1, <<"p">>)
    /\ photos = {uniqueName(0, <<"p">>), uniqueName(1, <<"p">>)}
\* a text that is an integer: digits and nothing else
IsIntegerText(text) ==
    /\ text # Undefined
    /\ text # <<>>
    /\ \A i \in 1..Len(text) : IsDigit(text[i])

\* C11, as stated: POST /search answers 400 when the id field is missing, empty
\* or holds anything but digits, 404 when the id is an integer no item has, and
\* for the id of an item 200 with has_photo telling whether the item has a
\* photo reference and a photo_url that is not null exactly when the flag is
\* "on" and the item has a photo reference; the store is left as it was.
C11_SearchContract ==
    [][resp'.op = "search" => \A t \in SearchIds, h \in HasPhotoFlags :
          Search(t, h)
              => /\ inventory' = inventory /\ nextId' = nextId
                 /\ file' = file /\ photos' = photos
                 /\ IF ~IsIntegerText(t) THEN resp'.status = 400
                    ELSE IF Unknown(t) THEN resp'.status = 404
                    ELSE \E i \in 1..Len(inventory) :
                            /\ inventory[i].id = ParseInt(t).val
                            /\ resp'.status = 200
                            /\ resp'.body.has_photo =
                                   (inventory[i].photoFilename # NoPhoto)
                            /\ (resp'.body.photo_url # <<>>) =
                                   (/\ h = <<"o", "n">>
                                    /\ inventory[i].photoFilename # NoPhoto)]_vars
\* C12, as stated: in every reachable state the name of every item is a string
\* that is not empty after trimming.
C12_NamesNotBlank ==
    \A i \in 1..Len(inventory) : ~IsBlank(inventory[i].inventory_name)

\* C13, as stated: in every reachable state every item that has a photo
\* reference references a file that is in the cache directory (nothing but the
\* service removes files there).
C13_ReferencedPhotoExists ==
    \A i \in 1..Len(inventory) :
        inventory[i].photoFilename # NoPhoto
            => inventory[i].photoFilename \in photos
====
